---- MODULE Spec2Model ----
(***************************************************************************)
(* A model of src/lib.rs: TimeoutClient::new, Client::ask_question and     *)
(* build_request, together with the behaviour of the library calls they    *)
(* make (env::var, reqwest's builder, tiktoken's token budget, the         *)
(* exponential backoff that async_openai runs around every submission).    *)
(*                                                                         *)
(* Time is in whole seconds.  A text (a prompt) is represented by the      *)
(* number of tokens its content encodes to; a reply text is a sequence of  *)
(* characters.                                                             *)
(***************************************************************************)
EXTENDS Integers, Sequences, FiniteSets, TLC

(* ------------------------------ bounds -------------------------------- *)

\* concurrent ask_question invocations against one client (ConcSpec)
NumCalls == 2
\* the two timeouts a client is constructed with
ShortTimeout == 9
LongTimeout == 44
\* a submission answers after 0..MaxAttemptSecs seconds (or runs into the
\* transport timeout)
MaxAttemptSecs == 1
\* rand::random::<f64>() is sampled at 0/RandomSteps .. RandomSteps/RandomSteps
RandomSteps == 4
\* a response carries at most MaxChoices choices
MaxChoices == 2

(* ------------------------- program constants -------------------------- *)

\* Duration::from_secs(4)
InitialIntervalSecs == 4
\* with_multiplier(2.0)
Multiplier == 2
\* Duration::from_secs(20)
MaxIntervalSecs == 20
\* ExponentialBackoffBuilder::default(): the randomization factor is left at
\* its default, 0.5, written here in percent
RandomizationPercent == 50
\* u16::MAX, the range of u16::try_from
U16Max == 65535

(* ------------------------------- state -------------------------------- *)

VARIABLES
    env,          \* OPENAI_API_KEY in the process environment
    newPc,        \* position inside TimeoutClient::new
    timeout,      \* the argument of TimeoutClient::new
    api_key,      \* local api_key of new ("" until it is bound)
    http_client,  \* local http_client of new
    client,       \* the constructed TimeoutClient (its async_openai client)
    created,      \* what new returned
    call,         \* per ask_question invocation: its position and locals
    backoff       \* per submission: the backoff state that execute() cloned

vars == <<env, newPc, timeout, api_key, http_client, client, created, call, backoff>>

Calls == 1..NumCalls

NoValue == [none |-> TRUE]

(* ----------------------- TimeoutClient::new --------------------------- *)

\* a variant of env_var: an absent variable reads as the empty key
env_var_or_default(e) ==
    IF e = "not_unicode" THEN [ok |-> FALSE, err |-> "NotUnicode"]
    ELSE [ok |-> TRUE, value |-> IF e = "absent" THEN "" ELSE e]

\* env::var("OPENAI_API_KEY"): Ok(key), or Err(NotPresent), Err(NotUnicode)
env_var(e) ==
    IF e = "absent" THEN [ok |-> FALSE, err |-> "NotPresent"]
    ELSE IF e = "not_unicode" THEN [ok |-> FALSE, err |-> "NotUnicode"]
    ELSE [ok |-> TRUE, value |-> e]

CreateClientError(t, kind, err) == [timeout |-> t, kind |-> kind, source |-> err]

\* the policy built by ExponentialBackoffBuilder in new
ExponentialBackoff(t) ==
    [initial_interval     |-> InitialIntervalSecs,
     multiplier           |-> Multiplier,
     max_interval         |-> MaxIntervalSecs,
     max_elapsed_time     |-> t,
     randomization_factor |-> RandomizationPercent,
     current_interval     |-> InitialIntervalSecs,
     elapsed              |-> 0]

\* let api_key = env::var(..).map_err(..)?
NewReadKey(Timeouts) ==
    /\ newPc = "start"
    /\ \E t \in Timeouts :
        LET k == env_var(env) IN
        /\ timeout' = t
        /\ IF k.ok
           THEN /\ api_key' = k.value
                /\ newPc' = "key_read"
                /\ created' = created
           ELSE /\ api_key' = api_key
                /\ newPc' = "failed"
                /\ created' = [ok |-> FALSE, err |-> CreateClientError(t, "OpenAIKey", k.err)]
    /\ UNCHANGED <<env, http_client, client, call, backoff>>

\* let http_client = reqwest::ClientBuilder::new().timeout(timeout).build().map_err(..)?
NewBuildHttp ==
    /\ newPc = "key_read"
    /\ \E built \in BOOLEAN :
        IF built
        THEN /\ http_client' = [timeout |-> timeout]
             /\ newPc' = "http_built"
             /\ created' = created
        ELSE /\ http_client' = http_client
             /\ newPc' = "failed"
             /\ created' = [ok |-> FALSE, err |-> CreateClientError(timeout, "BuildClient", "reqwest")]
    /\ UNCHANGED <<env, timeout, api_key, client, call, backoff>>

\* async_openai::Client::new().with_api_key(..).with_backoff(..).with_http_client(..)
NewBuildClient ==
    /\ newPc = "http_built"
    /\ client' = [api_key     |-> api_key,
                  backoff     |-> ExponentialBackoff(timeout),
                  http_client |-> http_client]
    /\ created' = [ok |-> TRUE]
    /\ newPc' = "done"
    /\ UNCHANGED <<env, timeout, api_key, http_client, call, backoff>>

(* --------------------------- build_request ---------------------------- *)

ChatModels == {"gpt-3.5-turbo", "gpt-4-1106-preview"}

\* tiktoken_rs::model::get_context_size: the context window of a model, 4096
\* for a model it does not know
get_context_size(model) ==
    IF model = "gpt-4-1106-preview" THEN 128000
    ELSE IF model = "text-davinci-003" THEN 4097
    ELSE 4096

\* a variant of num_tokens_from_messages: a model without a chat tokenizer
\* counts as an empty prompt
num_tokens_or_default(model, messages) ==
    IF model \notin ChatModels
    THEN [ok |-> TRUE, value |-> 0]
    ELSE LET per_message == IF model = "gpt-3.5-turbo" THEN 4 ELSE 3
             Cost(i) == per_message + 1 + messages[i].content
         IN [ok |-> TRUE, value |-> Cost(1) + Cost(2) + 3]

\* tiktoken_rs num_tokens_from_messages: fails for a model with no tokenizer
\* and for a model that is not a chat model; otherwise the per-message
\* overhead, one token for the role, the content's tokens, and 3 tokens that
\* prime the reply
num_tokens_from_messages(model, messages) ==
    IF model = "no-such-model"
    THEN [ok |-> FALSE, err |-> "No tokenizer found for model"]
    ELSE IF model \notin ChatModels
    THEN [ok |-> FALSE, err |-> "Chat completion is only supported chat models"]
    ELSE LET per_message == IF model = "gpt-3.5-turbo" THEN 4 ELSE 3
             Cost(i) == per_message + 1 + messages[i].content
         IN [ok |-> TRUE, value |-> Cost(1) + Cost(2) + 3]

saturating_sub(a, b) == IF a >= b THEN a - b ELSE 0

\* tiktoken_rs::async_openai::get_chat_completion_max_tokens
get_chat_completion_max_tokens(model, messages) ==
    LET prompt_tokens == num_tokens_from_messages(model, messages) IN
    IF prompt_tokens.ok
    THEN [ok |-> TRUE, value |-> saturating_sub(get_context_size(model), prompt_tokens.value)]
    ELSE prompt_tokens

\* a variant of u16_try_from: the value is capped at u16::MAX
u16_saturating_from(n) ==
    [ok |-> TRUE, value |-> IF n <= U16Max THEN n ELSE U16Max]

\* a variant of u16_try_from: the value is truncated to 16 bits (n as u16)
u16_truncating_from(n) ==
    [ok |-> TRUE, value |-> n % (U16Max + 1)]

\* u16::try_from(usize)
u16_try_from(n) ==
    IF n <= U16Max THEN [ok |-> TRUE, value |-> n] ELSE [ok |-> FALSE]

BuildRequestError(model, detail) ==
    [ok |-> FALSE, err |-> [model |-> model, kind |-> "BuildRequest", detail |-> detail]]

\* build_request.  `builders' is the outcome of the three derive_builder
\* build() calls: "ok", or the one that returns an error.
build_request(system, question, model, temperature, builders) ==
    IF builders = "system_message"
    THEN BuildRequestError(model, "system message")
    ELSE IF builders = "user_message"
    THEN BuildRequestError(model, "user message")
    ELSE
    LET messages == << [role |-> "system", content |-> system],
                       [role |-> "user", content |-> question] >>
        tokens == get_chat_completion_max_tokens(model, messages)
    IN  IF ~tokens.ok
        THEN BuildRequestError(model, tokens.err)
        ELSE LET max_tokens == u16_try_from(tokens.value) IN
             IF ~max_tokens.ok
             THEN BuildRequestError(model, "max tokens out of range")
             ELSE IF builders = "request"
             THEN BuildRequestError(model, "request")
             ELSE [ok |-> TRUE,
                   value |-> [model       |-> model,
                              max_tokens  |-> max_tokens.value,
                              temperature |-> temperature,
                              messages    |-> messages]]

(* ------------- the backoff policy around a submission ----------------- *)

\* a variant of increment_current_interval: the interval never grows
keep_current_interval(b) == b.current_interval

\* ExponentialBackoff::increment_current_interval: the interval times the
\* multiplier, or max_interval once that would pass it
increment_current_interval(b) ==
    IF b.current_interval * b.multiplier >= b.max_interval
    THEN b.max_interval
    ELSE b.current_interval * b.multiplier

\* ExponentialBackoff::get_random_value_from_interval: a value of
\* [current - delta, current + delta], delta = randomization_factor * current,
\* picked by random (here random/RandomSteps of the way)
get_random_value_from_interval(randomization_factor, random, current_interval) ==
    LET delta == (randomization_factor * current_interval) \div 100
        min_interval == current_interval - delta
        max_interval == current_interval + delta
    IN  min_interval + (random * (max_interval - min_interval)) \div RandomSteps

\* a variant of next_backoff: the comparison with max_elapsed_time is turned
\* round, so it gives up while the next sleep would still fit
next_backoff_early(b, random) ==
    LET randomized_interval ==
            get_random_value_from_interval(b.randomization_factor, random,
                                           b.current_interval)
        nb == [b EXCEPT !.current_interval = increment_current_interval(b)]
    IN  [retry    |-> b.elapsed + randomized_interval >= b.max_elapsed_time,
         interval |-> randomized_interval,
         backoff  |-> nb]

\* ExponentialBackoff::next_backoff: None once max_elapsed_time has passed or
\* the next sleep would end after it; the interval grows on every draw.
\* Returns the sleep (retry: Some or None), the interval drawn and the new state.
next_backoff(b, random) ==
    IF b.elapsed > b.max_elapsed_time
    THEN [retry |-> FALSE, interval |-> 0, backoff |-> b]
    ELSE LET randomized_interval ==
                 get_random_value_from_interval(b.randomization_factor, random,
                                                b.current_interval)
             nb == [b EXCEPT !.current_interval = increment_current_interval(b)]
         IN  [retry    |-> b.elapsed + randomized_interval <= b.max_elapsed_time,
              interval |-> randomized_interval,
              backoff  |-> nb]

\* ExponentialBackoff::reset, run when the retry of one submission starts
reset(b) == [b EXCEPT !.current_interval = b.initial_interval, !.elapsed = 0]

\* a variant of BackoffSlot: every invocation works on the client's one
\* backoff state
SharedBackoffSlot(c) == 1

\* execute() works on self.backoff.clone(): every invocation has a backoff
\* state of its own
BackoffSlot(c) == c

\* a variant of Classify: a transport error is retried too
ClassifyTransportTransient(outcome) ==
    IF outcome \in {"rate_limit", "reqwest"} THEN "Transient" ELSE "Permanent"

\* async_openai's execute: HTTP 429 is retried (Transient) unless its error
\* type is insufficient_quota; a transport error and every other status are
\* Permanent
Classify(outcome) ==
    IF outcome = "rate_limit" THEN "Transient" ELSE "Permanent"

(* ------------------------- Client::ask_question ----------------------- *)

IdleCall ==
    [pc          |-> "Idle",
     system      |-> 0,
     question    |-> 0,
     model       |-> "",
     temperature |-> 0,
     builders    |-> "",         \* how the derive_builder build() calls ended
     request     |-> NoValue,    \* the request handed to create()
     submitted   |-> 0,          \* submissions made to the transport
     limited     |-> 0,          \* rate-limit answers received
     last        |-> "",         \* the transport's last answer
     interval    |-> 0,          \* the last interval next_backoff drew
     response    |-> <<>>,       \* response.choices
     result      |-> NoValue]    \* what ask_question returned

RequestError(model, cause) ==
    [ok |-> FALSE, err |-> [model |-> model, kind |-> "Request", cause |-> cause]]

\* a variant of PushAll: a newline is pushed after every choice
RECURSIVE PushAllLines(_, _)
PushAllLines(response_mesasge, choices) ==
    IF choices = <<>> THEN response_mesasge
    ELSE PushAllLines(response_mesasge \o Head(choices) \o <<"\n">>, Tail(choices))

\* for chat_choice in response.choices { response_mesasge.push_str(..) }
RECURSIVE PushAll(_, _)
PushAll(response_mesasge, choices) ==
    IF choices = <<>> THEN response_mesasge
    ELSE PushAll(response_mesasge \o Head(choices), Tail(choices))

\* ask_question up to its first suspension: build_request(..)?, then the
\* request is handed to create(), which resets its backoff clone and submits
AskQuestion(c, In) ==
    /\ newPc = "done"
    /\ call[c].pc = "Idle"
    /\ \E system \in In.systems, question \in In.questions, model \in In.models,
          temperature \in In.temperatures, builders \in In.builders :
        LET request == build_request(system, question, model, temperature, builders)
            args == [call[c] EXCEPT !.system = system, !.question = question,
                                    !.model = model, !.temperature = temperature,
                                    !.builders = builders]
        IN  IF request.ok
            THEN /\ call' = [call EXCEPT ![c] = [args EXCEPT !.pc = "Submitting",
                                                            !.request = request.value,
                                                            !.submitted = 1]]
                 /\ backoff' = [backoff EXCEPT ![BackoffSlot(c)] = reset(client.backoff)]
            ELSE /\ call' = [call EXCEPT ![c] = [args EXCEPT !.pc = "BuildFailed",
                                                            !.result = request]]
                 /\ backoff' = backoff
    /\ UNCHANGED <<env, newPc, timeout, api_key, http_client, client, created>>

\* the transport answers the submission in flight after dur seconds
Respond(c, In) ==
    /\ call[c].pc = "Submitting"
    /\ \E outcome \in In.outcomes, dur \in In.durations \cup {client.http_client.timeout} :
        LET s == BackoffSlot(c)
            b == [backoff[s] EXCEPT !.elapsed = @ + dur]
        IN  \* reqwest gives up on a request that takes the whole timeout
            /\ (dur >= client.http_client.timeout) => (outcome = "reqwest")
            /\ IF outcome = "ok"
               THEN \E choices \in In.choices :
                    /\ call' = [call EXCEPT ![c].pc = "Succeeded",
                                            ![c].last = outcome,
                                            ![c].response = choices,
                                            ![c].result = [ok |-> TRUE,
                                                           value |-> PushAll(<<>>, choices)]]
                    /\ backoff' = [backoff EXCEPT ![s] = b]
               ELSE IF Classify(outcome) = "Transient"
               THEN \E random \in In.randoms :
                    LET nb == next_backoff(b, random) IN
                    /\ call' = [call EXCEPT
                                  ![c].pc = IF nb.retry THEN "Retrying" ELSE "Failed",
                                  ![c].last = outcome,
                                  ![c].limited = IF outcome = "rate_limit" THEN @ + 1 ELSE @,
                                  ![c].interval = nb.interval,
                                  ![c].result = IF nb.retry THEN @
                                                ELSE RequestError(call[c].model, outcome)]
                    /\ backoff' = [backoff EXCEPT ![s] = nb.backoff]
               ELSE /\ call' = [call EXCEPT ![c].pc = "Failed",
                                            ![c].last = outcome,
                                            ![c].limited = IF outcome = "rate_limit"
                                                           THEN @ + 1 ELSE @,
                                            ![c].result = RequestError(call[c].model, outcome)]
                    /\ backoff' = [backoff EXCEPT ![s] = b]
    /\ UNCHANGED <<env, newPc, timeout, api_key, http_client, client, created>>

\* the sleep of the retry ends and the request is submitted again
Wake(c) ==
    /\ call[c].pc = "Retrying"
    /\ call' = [call EXCEPT ![c].pc = "Submitting", ![c].submitted = @ + 1]
    /\ backoff' = [backoff EXCEPT ![BackoffSlot(c)].elapsed = @ + call[c].interval]
    /\ UNCHANGED <<env, newPc, timeout, api_key, http_client, client, created>>

(* --------------------------- specifications --------------------------- *)

Contents == {<<>>, <<"a">>, <<"b", "c">>}

ChoiceLists == UNION {[1..n -> Contents] : n \in 0..MaxChoices}

Outcomes ==
    {"ok", "rate_limit", "insufficient_quota", "invalid_api_key",
     "invalid_request_error", "reqwest"}

\* what one caller can pass and meet
Wide ==
    [timeouts     |-> {ShortTimeout, LongTimeout},
     models       |-> ChatModels \cup {"text-davinci-003", "no-such-model"},
     systems      |-> {0, 1000},
     questions    |-> {5, 4083, 70000},
     temperatures |-> {1},
     builders     |-> {"ok", "system_message", "user_message", "request"},
     outcomes     |-> Outcomes,
     durations    |-> 0..MaxAttemptSecs,
     randoms      |-> 0..RandomSteps,
     choices      |-> ChoiceLists]

\* what each of several concurrent callers passes and meets
Narrow ==
    [timeouts     |-> {ShortTimeout},
     models       |-> {"gpt-3.5-turbo", "no-such-model"},
     systems      |-> {0},
     questions    |-> {5},
     temperatures |-> {0},
     builders     |-> {"ok"},
     outcomes     |-> {"ok", "rate_limit", "reqwest"},
     durations    |-> {0},
     randoms      |-> {0, RandomSteps},
     choices      |-> {<<>>, << <<"a">>, <<"b", "c">> >>}]

Init ==
    /\ env \in {"absent", "not_unicode", "sk-key"}
    /\ newPc = "start"
    /\ timeout = 0
    /\ api_key = ""
    /\ http_client = NoValue
    /\ client = NoValue
    /\ created = NoValue
    /\ call = [c \in Calls |-> IdleCall]
    /\ backoff = [c \in Calls |-> NoValue]

\* one client, one ask_question invocation, every input
Next ==
    \/ NewReadKey(Wide.timeouts)
    \/ NewBuildHttp
    \/ NewBuildClient
    \/ \E c \in {1} : AskQuestion(c, Wide)
    \/ \E c \in {1} : Respond(c, Wide)
    \/ \E c \in {1} : Wake(c)

Spec == Init /\ [][Next]_vars

\* a submission in flight is answered, a sleep ends
FairSpec == Spec /\ WF_vars(Respond(1, Wide)) /\ WF_vars(Wake(1))

\* one client shared by NumCalls concurrent invocations
ConcNext ==
    \/ NewReadKey(Narrow.timeouts)
    \/ NewBuildHttp
    \/ NewBuildClient
    \/ \E c \in Calls : AskQuestion(c, Narrow)
    \/ \E c \in Calls : Respond(c, Narrow)
    \/ \E c \in Calls : Wake(c)

ConcSpec == Init /\ [][ConcNext]_vars

(* ------------------------------ claims -------------------------------- *)

Min(a, b) == IF a <= b THEN a ELSE b

Returned(c) == call[c].pc \in {"BuildFailed", "Succeeded", "Failed"}

\* the messages build_request makes of a call's prompts
MessagesOf(c) ==
    << [role |-> "system", content |-> call[c].system],
       [role |-> "user", content |-> call[c].question] >>

\* the tokenizer knows the call's model and counts its prompts
Counted(c) == call[c].model \in ChatModels

\* tokens consumed by the system and user messages of a call
Consumed(c) == num_tokens_from_messages(call[c].model, MessagesOf(c)).value

\* context window minus consumed tokens, as an integer
Budget(c) == get_context_size(call[c].model) - Consumed(c)

\* building the request of call c fails
BuildFails(c) ==
    \/ call[c].builders # "ok"
    \/ ~Counted(c)
    \/ Budget(c) > 65535

\* C1: whenever building the request fails (a builder rejects, the model is
\* unrecognized or not tokenizable, the token budget is out of range), the
\* call returns a BuildRequest error carrying the model passed in, nothing was
\* submitted, and the call stays returned: Submitting is never reached from
\* BuildFailed.
C1_BuildFailureNoSubmission ==
    /\ [](\A c \in Calls :
            /\ (call[c].pc # "Idle" /\ BuildFails(c)) => call[c].pc = "BuildFailed"
            /\ call[c].pc = "BuildFailed" =>
                 /\ BuildFails(c)
                 /\ call[c].result.ok = FALSE
                 /\ call[c].result.err.kind = "BuildRequest"
                 /\ call[c].result.err.model = call[c].model
                 /\ call[c].submitted = 0
                 /\ call[c].request = NoValue
                 /\ backoff[BackoffSlot(c)] = NoValue)
    /\ [][\A c \in Calls : call[c].pc = "BuildFailed" => call'[c] = call[c]]_vars

C1_Witness ==
    \E c \in Calls : call[c].pc = "BuildFailed" /\ call[c].model = "no-such-model"

\* C5 (as claimed): whenever the prompts' token count is within the model's
\* context window, build succeeds with max_tokens = window - consumed, capped
\* at 65535.
C5_Original ==
    \A c \in Calls :
        (call[c].pc # "Idle" /\ call[c].builders = "ok" /\ Counted(c) /\ Budget(c) >= 0)
        => /\ call[c].request # NoValue
           /\ call[c].request.max_tokens = Min(Budget(c), 65535)

\* C5 (amended): whenever the prompts' token count is within the model's
\* context window, build succeeds with max_tokens = window - consumed if that
\* is at most 65535, and fails with "max tokens out of range" otherwise:
\* nothing is capped.
C5_BudgetWithinWindow ==
    \A c \in Calls :
        (call[c].pc # "Idle" /\ call[c].builders = "ok" /\ Counted(c) /\ Budget(c) >= 0)
        => IF Budget(c) <= 65535
           THEN /\ call[c].pc # "BuildFailed"
                /\ call[c].request # NoValue
                /\ call[c].request.max_tokens = Budget(c)
           ELSE /\ call[c].pc = "BuildFailed"
                /\ call[c].request = NoValue
                /\ call[c].result.err.detail = "max tokens out of range"

C5_Witness ==
    \E c \in Calls :
        call[c].pc = "Submitting" /\ Budget(c) = 57989 /\ call[c].request.max_tokens = 57989

C7_PositiveBudget ==
    \A c \in Calls :
        call[c].request # NoValue
        => /\ call[c].request.max_tokens > 0
           /\ call[c].request.max_tokens <= Budget(c)

\* the length of the texts of the choices before the i-th
RECURSIVE LenBefore(_, _)
LenBefore(choices, i) ==
    IF i <= 1 THEN 0 ELSE LenBefore(choices, i - 1) + Len(choices[i - 1])

\* C8: a successful submission returns Ok with the choices' texts one after
\* the other in response order and nothing between them; no choice at all
\* gives Ok with the empty string.
C8_ConcatenatedChoices ==
    \A c \in Calls :
        call[c].pc = "Succeeded"
        => LET choices == call[c].response
               n == Len(choices)
           IN  /\ call[c].result.ok
               /\ Len(call[c].result.value) = LenBefore(choices, n + 1)
               /\ \A i \in 1..n :
                    SubSeq(call[c].result.value,
                           LenBefore(choices, i) + 1,
                           LenBefore(choices, i) + Len(choices[i])) = choices[i]
               /\ (n = 0 => call[c].result.value = <<>>)

C8_Witness ==
    \E c \in Calls :
        /\ call[c].pc = "Succeeded"
        /\ call[c].response = << <<"b", "c">>, <<"a">> >>
        /\ call[c].result.value = <<"b", "c", "a">>

\* C10: when OPENAI_API_KEY is absent, new returns the missing-credential
\* error, no transport handle and no client (so no backoff policy) is built,
\* no question is ever asked; and a transport handle is only ever built after
\* the credential was read.
C10_MissingCredential ==
    /\ (env = "absent" /\ newPc # "start")
       => /\ newPc = "failed"
          /\ created = [ok |-> FALSE,
                        err |-> [timeout |-> timeout, kind |-> "OpenAIKey",
                                 source |-> "NotPresent"]]
          /\ http_client = NoValue
          /\ client = NoValue
          /\ \A c \in Calls : call[c] = IdleCall /\ backoff[c] = NoValue
    /\ (http_client # NoValue \/ client # NoValue) => api_key = env

C10_Witness == env = "absent" /\ newPc = "failed"

\* seconds since the submission of call c started, on its backoff's clock
Elapsed(c) == backoff[BackoffSlot(c)].elapsed

\* C2: a call is in Retrying only after a rate-limit answer and only with the
\* elapsed time (and the end of the sleep) within the timeout, and it enters
\* Retrying only from Submitting; any other failed submission leaves the call
\* Failed with Request(model, cause), every earlier submission having been
\* rate limited, and a Failed call submits nothing more.
C2_RetryOnlyOnRateLimit ==
    /\ [](\A c \in Calls :
            /\ call[c].pc = "Retrying" =>
                 /\ call[c].last = "rate_limit"
                 /\ Elapsed(c) <= timeout
                 /\ Elapsed(c) + call[c].interval <= timeout
                 /\ call[c].submitted = call[c].limited
            /\ (call[c].submitted > 0 /\ call[c].last \notin {"", "ok", "rate_limit"}) =>
                 /\ call[c].pc = "Failed"
                 /\ call[c].result = [ok |-> FALSE,
                                      err |-> [model |-> call[c].model,
                                               kind |-> "Request",
                                               cause |-> call[c].last]]
                 /\ call[c].submitted = call[c].limited + 1)
    /\ [][\A c \in Calls :
            /\ (call'[c].pc = "Retrying" /\ call[c].pc # "Retrying")
                 => call[c].pc = "Submitting"
            /\ call[c].pc = "Failed" => call'[c] = call[c]]_vars

C2_Witness ==
    \E c \in Calls :
        /\ call[c].pc = "Failed"
        /\ call[c].last = "invalid_api_key"
        /\ call[c].limited = 2
        /\ call[c].submitted = 3

RECURSIVE Pow2(_)
Pow2(n) == IF n <= 0 THEN 1 ELSE 2 * Pow2(n - 1)

\* min(4 * 2^(i-1), 20): 4, 8, 16, 20, 20, ...
NominalDelay(i) == Min(4 * Pow2(i - 1), 20)

\* C3 (as claimed): the delay before the i-th retry is exactly
\* min(4 * 2^(i-1), 20) seconds.
C3_Original ==
    \A c \in Calls :
        call[c].pc = "Retrying" => call[c].interval = NominalDelay(call[c].limited)

\* C3 (amended): a call that succeeds after k rate-limit answers made exactly k
\* retries (k + 1 submissions), and the delay before the i-th retry lies
\* within half and one and a half times min(4 * 2^(i-1), 20) seconds, that
\* being the interval the policy holds before the i-th draw.
C3_JitteredDelays ==
    \A c \in Calls :
        /\ call[c].pc = "Succeeded" =>
             /\ call[c].result.ok
             /\ call[c].submitted = call[c].limited + 1
        /\ call[c].pc = "Retrying" =>
             /\ 2 * call[c].interval >= NominalDelay(call[c].limited)
             /\ 2 * call[c].interval <= 3 * NominalDelay(call[c].limited)
             /\ backoff[BackoffSlot(c)].current_interval
                  = NominalDelay(call[c].limited + 1)

C3_Witness ==
    \E c \in Calls :
        /\ call[c].pc = "Succeeded"
        /\ call[c].limited = 4
        /\ call[c].submitted = 5
        /\ call[c].interval > 20

\* every submission of call c was answered with a rate limit
AlwaysLimited(c) == call[c].submitted > 0 /\ call[c].limited = call[c].submitted

\* C4 (as claimed): under a transport that always rate-limits, the Request
\* error is returned only after the elapsed time has exceeded the timeout.
C4_Original ==
    \A c \in Calls :
        (call[c].pc = "Failed" /\ AlwaysLimited(c)) => Elapsed(c) > timeout

\* C4 (amended): a submitted call always returns; under a transport that
\* always rate-limits it returns a Request error holding the last rate-limit
\* error, and it does so as soon as the elapsed time has exceeded the timeout
\* or the next delay would end after it, which can be before the timeout has
\* elapsed.
C4_GivesUpWithinBudget ==
    /\ [](\A c \in Calls :
            (Returned(c) /\ AlwaysLimited(c)) =>
                /\ call[c].pc = "Failed"
                /\ call[c].result = [ok |-> FALSE,
                                     err |-> [model |-> call[c].model,
                                              kind |-> "Request",
                                              cause |-> "rate_limit"]]
                /\ \/ Elapsed(c) > timeout
                   \/ Elapsed(c) + call[c].interval > timeout)
    /\ \A c \in {1} : (call[c].pc = "Submitting") ~> Returned(c)

C4_Witness ==
    \E c \in Calls :
        /\ call[c].pc = "Failed"
        /\ AlwaysLimited(c)
        /\ call[c].limited >= 3
        /\ Elapsed(c) < timeout

\* C9: the client's configuration never changes once built; a step of one
\* invocation changes neither another invocation nor another invocation's
\* backoff state; and the interval an invocation's backoff holds is decided
\* by that invocation's own rate-limit answers alone.
C9_IndependentCalls ==
    /\ [][/\ client # NoValue => client' = client
          /\ \A c, d \in Calls :
                (c # d /\ call'[c] # call[c])
                => /\ call'[d] = call[d]
                   /\ backoff'[d] = backoff[d]]_vars
    /\ [](\A c \in Calls :
            /\ client # NoValue =>
                 client = [api_key |-> env,
                           backoff |-> ExponentialBackoff(timeout),
                           http_client |-> [timeout |-> timeout]]
            /\ call[c].pc \in {"Submitting", "Retrying"} =>
                 /\ backoff[c] # NoValue
                 /\ backoff[c].max_elapsed_time = timeout
                 /\ backoff[c].current_interval = NominalDelay(call[c].limited + 1)
                 /\ backoff[c].elapsed <= timeout
                 /\ call[c].submitted =
                      call[c].limited + (IF call[c].pc = "Submitting" THEN 1 ELSE 0))

C9_Witness ==
    /\ NumCalls >= 2
    /\ call[1].pc = "Retrying"
    /\ call[1].limited = 2
    /\ call[2].pc = "Submitting"
    /\ call[2].limited = 0
    /\ backoff[1].current_interval = 16
    /\ backoff[2].current_interval = 4

====
